---- MODULE Spec2Model ----
(***************************************************************************)
(* A model of hay::Stack<T> (src/src/lib.rs): a LIFO container that wraps  *)
(* a Vec<T> and delegates every operation to it.                           *)
(*                                                                         *)
(* A stack value is a record                                               *)
(*   vec    : the backing Vec<T>, a sequence of elements, index 1 deepest; *)
(*   cap    : the capacity of the backing Vec (cap >= Len(vec));           *)
(*   pushes : history field, the number of push calls made on this stack.  *)
(* An element is [val |-> the T value, id |-> the ordinal of the push call *)
(* that put it on the stack]; id is a history tag (0 for an element that   *)
(* entered through the raw backing vector and was never pushed).  The code *)
(* never reads pushes or id: they only let the properties speak of "the    *)
(* element most recently pushed".                                          *)
(***************************************************************************)
EXTENDS Integers, Sequences, FiniteSets, TLC

VARIABLES
    self,       \* the stack under test
    other,      \* a second stack, compared with self (derive(PartialEq))
    op,         \* name of the last operation called
    arg,        \* its argument
    ret,        \* its result
    pops,       \* history: number of pop calls that returned Some
    inserts,    \* history: number of raw insertions through as_mut_vec
    plain,      \* history: only push/extend, successful pop and reads so far
    reordered,  \* history: a raw view has moved or inserted an element
    present,    \* history: ids of the elements added and not yet removed
    phase,      \* history: "pushing", "popping" or "off" (see LogOff)
    pushedLog,  \* history: values pushed during the "pushing" phase
    poppedLog   \* history: results of the pops of the "popping" phase

vars ==
    <<self, other, op, arg, ret, pops, inserts, plain, reordered, present,
      phase, pushedLog, poppedLog>>

---------------------------------------------------------------------------
\* Bounds of the model.

\* element values are 1..NumValues
NumValues == 2
\* at most MaxPushes push calls are made on one stack
MaxPushes == 4
\* iterators handed to extend produce at most MaxIter elements
MaxIter == 3
\* at most MaxInserts raw insertions through as_mut_vec
MaxInserts == 1
\* at most MaxEqPushes push calls on each of two stacks that are compared
MaxEqPushes == 2

Values == 1..NumValues

\* all sequences over S of length at most n
SeqsUpTo(S, n) == UNION {[1..m -> S] : m \in 0..n}

---------------------------------------------------------------------------
\* Option<T>, () and usize results.

None == [kind |-> "none"]
Some(x) == [kind |-> "some", val |-> x]
Unit == [kind |-> "unit"]
Usize(n) == [kind |-> "usize", val |-> n]
Slice(s) == [kind |-> "slice", val |-> s]

\* Helpers on sequences (what Vec and slice provide).
Last(s) == s[Len(s)]
Front(s) == SubSeq(s, 1, Len(s) - 1)
Reverse(s) == [i \in 1..Len(s) |-> s[Len(s) + 1 - i]]
InsertAt(s, i, e) == SubSeq(s, 1, i) \o <<e>> \o SubSeq(s, i + 1, Len(s))
SwapAt(s, i, j) == [s EXCEPT ![i] = s[j], ![j] = s[i]]

\* the T values of a sequence of elements
ValsOf(s) == [i \in 1..Len(s) |-> s[i].val]

\* Capacity after making room for one more element: the backing Vec grows
\* geometrically when it is full and is left alone otherwise.
Grow(len, cap) == IF len < cap THEN cap ELSE IF cap = 0 THEN 1 ELSE 2 * cap

---------------------------------------------------------------------------
\* The methods of Stack<T>.  A method that can return a value yields
\* [self |-> the stack afterwards, ret |-> the result].

\* Stack::new
new == [vec |-> <<>>, cap |-> 0, pushes |-> 0]

\* a len that reports the capacity of the backing vector
len_cap(s) == s.cap

\* Stack::len
len(s) == Len(s.vec)

\* Stack::push
push(s, value) ==
    [vec |-> Append(s.vec, [val |-> value, id |-> s.pushes + 1]),
     cap |-> Grow(Len(s.vec), s.cap),
     pushes |-> s.pushes + 1]

\* a pop that takes the oldest element, as a queue would
pop_front(s) ==
    IF Len(s.vec) = 0
    THEN [self |-> s, ret |-> None]
    ELSE [self |-> [s EXCEPT !.vec = Tail(s.vec)], ret |-> Some(Head(s.vec))]

\* a pop that answers an empty stack with a default element
pop_or_default(s) ==
    IF Len(s.vec) = 0
    THEN [self |-> s, ret |-> Some([val |-> 0, id |-> 0])]
    ELSE [self |-> [s EXCEPT !.vec = Front(s.vec)], ret |-> Some(Last(s.vec))]

\* Stack::pop
pop(s) ==
    IF Len(s.vec) = 0
    THEN [self |-> s, ret |-> None]
    ELSE [self |-> [s EXCEPT !.vec = Front(s.vec)], ret |-> Some(Last(s.vec))]

\* a top that removes the element it returns
top_removing(s) ==
    IF Len(s.vec) = 0
    THEN [self |-> s, ret |-> None]
    ELSE [self |-> [s EXCEPT !.vec = Front(s.vec)], ret |-> Some(Last(s.vec))]

\* a top that looks at the first position of the backing vector
top_first(s) ==
    [self |-> s,
     ret |-> IF Len(s.vec) = 0 THEN None ELSE Some(Head(s.vec))]

\* Stack::top
top(s) ==
    [self |-> s,
     ret |-> IF Len(s.vec) = 0 THEN None ELSE Some(Last(s.vec))]

\* a top_mut that refers to the first position of the backing vector
top_mut_first(s) ==
    [self |-> s,
     ret |-> IF Len(s.vec) = 0 THEN None ELSE Some(1)]

\* Stack::top_mut: the result refers to a position of the backing vector
top_mut(s) ==
    [self |-> s,
     ret |-> IF Len(s.vec) = 0 THEN None ELSE Some(Len(s.vec))]

\* a clear that drops the top element only
clear_one(s) == [s EXCEPT !.vec = Front(s.vec)]

\* Stack::clear
clear(s) == [s EXCEPT !.vec = <<>>]

\* Stack::as_vec
as_vec(s) == s.vec

\* a view that lists the top element first
deref_top_first(s) == Reverse(s.vec)

\* Deref::deref
deref(s) == s.vec

---------------------------------------------------------------------------
\* an extend that pushes the last produced value first
RECURSIVE extend_rev(_, _)
extend_rev(s, iter) ==
    IF iter = <<>> THEN s ELSE push(extend_rev(s, Tail(iter)), Head(iter))

\* Extend<T>::extend: pushes each produced value, in the order produced
RECURSIVE extend(_, _)
extend(s, iter) ==
    IF iter = <<>> THEN s ELSE extend(push(s, Head(iter)), Tail(iter))

\* A reference &T produced by an iterator over a borrowed slice: it names a
\* position of that slice, and *r reads the value stored there.
RefsInto(slice) == [i \in 1..Len(slice) |-> [slice |-> slice, idx |-> i]]
Read(r) == r.slice[r.idx]

\* Extend<&T>::extend (T: Copy): pushes a copy of each referenced value
RECURSIVE extend_ref(_, _)
extend_ref(s, iter) ==
    IF iter = <<>> THEN s ELSE extend_ref(push(s, Read(Head(iter))), Tail(iter))

\* Stack::as_mut_vec followed by Vec::insert(index, value) on the result
\* (the use the doc test of as_mut_vec makes of it); index counts from 0.
as_mut_vec_insert(s, index, value) ==
    [s EXCEPT !.vec = InsertAt(s.vec, index, [val |-> value, id |-> 0]),
              !.cap = Grow(Len(s.vec), s.cap)]

\* DerefMut::deref_mut followed by slice.swap(a, b); a, b count from 0.
deref_mut_swap(s, a, b) == [s EXCEPT !.vec = SwapAt(s.vec, a + 1, b + 1)]

\* DerefMut::deref_mut followed by slice[index] = value; index counts from 0.
deref_mut_set(s, index, value) == [s EXCEPT !.vec[index + 1].val = value]

\* Writing value through the reference top_mut returned (*r = value).
WriteAt(s, r, value) == [s EXCEPT !.vec[r].val = value]

\* an equality that also compares the capacities
eq_with_cap(a, b) ==
    /\ a.cap = b.cap
    /\ Len(a.vec) = Len(b.vec)
    /\ \A i \in 1..Len(a.vec) : a.vec[i].val = b.vec[i].val

\* derive(PartialEq) on Stack { vec }: the vec fields are compared, and two
\* Vec<T> are equal when their slices are: same length, equal T values at
\* every position.  Capacity is not a part of the comparison.
eq(a, b) ==
    /\ Len(a.vec) = Len(b.vec)
    /\ \A i \in 1..Len(a.vec) : a.vec[i].val = b.vec[i].val

---------------------------------------------------------------------------
\* The state machine: one action per call a client can make.

Init ==
    /\ self = new
    /\ other = new
    /\ op = "new"
    /\ arg = Unit
    /\ ret = Unit
    /\ pops = 0
    /\ inserts = 0
    /\ plain = TRUE
    /\ reordered = FALSE
    /\ present = {}
    /\ phase = "pushing"
    /\ pushedLog = <<>>
    /\ poppedLog = <<>>

\* History of a run "pushes, then pops": it is recorded from construction
\* while the calls are pushes followed by at most Len(pushedLog) + 1 pops;
\* any other mutating call ends the recording.
LogOff ==
    /\ phase' = "off"
    /\ pushedLog' = <<>>
    /\ poppedLog' = <<>>

LogKept == UNCHANGED <<phase, pushedLog, poppedLog>>

Push(v) ==
    /\ self.pushes < MaxPushes
    /\ self' = push(self, v)
    /\ op' = "push"
    /\ arg' = v
    /\ ret' = Unit
    /\ IF phase = "pushing"
       THEN /\ pushedLog' = Append(pushedLog, v)
            /\ UNCHANGED <<phase, poppedLog>>
       ELSE LogOff
    /\ present' = present \cup {self'.pushes}
    /\ UNCHANGED <<other, pops, inserts, plain, reordered>>

Pop ==
    /\ self' = pop(self).self
    /\ op' = "pop"
    /\ arg' = Unit
    /\ ret' = pop(self).ret
    /\ pops' = IF ret'.kind = "some" THEN pops + 1 ELSE pops
    /\ plain' = (plain /\ ret'.kind = "some")
    /\ IF phase # "off" /\ Len(poppedLog) <= Len(pushedLog)
       THEN /\ phase' = "popping"
            /\ poppedLog' = Append(poppedLog, ret')
            /\ UNCHANGED pushedLog
       ELSE LogOff
    /\ present' = IF ret'.kind = "some" THEN present \ {ret'.val.id} ELSE present
    /\ UNCHANGED <<other, inserts, reordered>>

Top ==
    /\ self' = top(self).self
    /\ op' = "top"
    /\ arg' = Unit
    /\ ret' = top(self).ret
    /\ LogKept
    /\ UNCHANGED <<other, pops, inserts, plain, reordered, present>>

\* if let Some(r) = stack.top_mut() { *r = v }
TopMut(v) ==
    /\ op' = "top_mut"
    /\ arg' = v
    /\ ret' = top_mut(self).ret
    /\ self' = IF ret'.kind = "some"
               THEN WriteAt(top_mut(self).self, ret'.val, v)
               ELSE top_mut(self).self
    /\ plain' = FALSE
    /\ LogOff
    /\ UNCHANGED <<other, pops, inserts, reordered, present>>

Clear ==
    /\ self' = clear(self)
    /\ op' = "clear"
    /\ arg' = Unit
    /\ ret' = Unit
    /\ plain' = FALSE
    /\ present' = {}
    /\ LogOff
    /\ UNCHANGED <<other, pops, inserts, reordered>>

LenCall ==
    /\ op' = "len"
    /\ arg' = Unit
    /\ ret' = Usize(len(self))
    /\ LogKept
    /\ UNCHANGED <<self, other, pops, inserts, plain, reordered, present>>

AsVec ==
    /\ op' = "as_vec"
    /\ arg' = Unit
    /\ ret' = Slice(as_vec(self))
    /\ LogKept
    /\ UNCHANGED <<self, other, pops, inserts, plain, reordered, present>>

Deref ==
    /\ op' = "deref"
    /\ arg' = Unit
    /\ ret' = Slice(deref(self))
    /\ LogKept
    /\ UNCHANGED <<self, other, pops, inserts, plain, reordered, present>>

Extend(iter) ==
    /\ self.pushes + Len(iter) <= MaxPushes
    /\ self' = extend(self, iter)
    /\ op' = "extend"
    /\ arg' = iter
    /\ ret' = Unit
    /\ present' = present \cup ((self.pushes + 1)..self'.pushes)
    /\ LogOff
    /\ UNCHANGED <<other, pops, inserts, plain, reordered>>

ExtendRef(slice) ==
    /\ self.pushes + Len(slice) <= MaxPushes
    /\ self' = extend_ref(self, RefsInto(slice))
    /\ op' = "extend_ref"
    /\ arg' = slice
    /\ ret' = Unit
    /\ present' = present \cup ((self.pushes + 1)..self'.pushes)
    /\ LogOff
    /\ UNCHANGED <<other, pops, inserts, plain, reordered>>

AsMutVecInsert(index, v) ==
    /\ inserts < MaxInserts
    /\ index <= len(self)
    /\ self' = as_mut_vec_insert(self, index, v)
    /\ op' = "as_mut_vec_insert"
    /\ arg' = <<index, v>>
    /\ ret' = Unit
    /\ inserts' = inserts + 1
    /\ plain' = FALSE
    /\ reordered' = TRUE
    /\ present' = present \cup {0}
    /\ LogOff
    /\ UNCHANGED <<other, pops>>

DerefMutSwap(a, b) ==
    /\ a < b
    /\ b < len(self)
    /\ self' = deref_mut_swap(self, a, b)
    /\ op' = "deref_mut_swap"
    /\ arg' = <<a, b>>
    /\ ret' = Unit
    /\ plain' = FALSE
    /\ reordered' = TRUE
    /\ LogOff
    /\ UNCHANGED <<other, pops, inserts, present>>

DerefMutSet(index, v) ==
    /\ index < len(self)
    /\ self' = deref_mut_set(self, index, v)
    /\ op' = "deref_mut_set"
    /\ arg' = <<index, v>>
    /\ ret' = Unit
    /\ plain' = FALSE
    /\ LogOff
    /\ UNCHANGED <<other, pops, inserts, reordered, present>>

\* the calls of the safe stack interface
NextCore ==
    \/ \E v \in Values : Push(v)
    \/ Pop
    \/ Top
    \/ \E v \in Values : TopMut(v)
    \/ Clear
    \/ LenCall
    \/ AsVec
    \/ Deref
    \/ \E iter \in SeqsUpTo(Values, MaxIter) : Extend(iter)
    \/ \E slice \in SeqsUpTo(Values, MaxIter) : ExtendRef(slice)

\* the calls that go through the mutable views of the backing vector
NextRaw ==
    \/ \E i \in 0..(MaxPushes + MaxInserts), v \in Values : AsMutVecInsert(i, v)
    \/ \E a, b \in 0..(MaxPushes + MaxInserts) : DerefMutSwap(a, b)
    \/ \E i \in 0..(MaxPushes + MaxInserts), v \in Values : DerefMutSet(i, v)

Next == NextCore \/ NextRaw

\* every call of the interface, the raw views included
Spec == Init /\ [][Next]_vars

\* the safe interface alone
SpecCore == Init /\ [][NextCore]_vars

\* the mutating calls of the safe interface, and reordering through the
\* mutable slice view
NextSwap ==
    \/ \E v \in Values : Push(v)
    \/ Pop
    \/ Top
    \/ \E v \in Values : TopMut(v)
    \/ Clear
    \/ \E iter \in SeqsUpTo(Values, MaxIter) : Extend(iter)
    \/ \E a, b \in 0..MaxPushes : DerefMutSwap(a, b)

SpecSwap == Init /\ [][NextSwap]_vars

---------------------------------------------------------------------------
\* Two stacks, each built by its own pushes, pops and clears, and compared.

Ghosts == <<pops, inserts, plain, reordered, present, phase, pushedLog, poppedLog>>

EqPushSelf(v) ==
    /\ self.pushes < MaxEqPushes
    /\ self' = push(self, v)
    /\ op' = "push"
    /\ arg' = v
    /\ ret' = Unit
    /\ UNCHANGED <<other, Ghosts>>

EqPushOther(v) ==
    /\ other.pushes < MaxEqPushes
    /\ other' = push(other, v)
    /\ op' = "push"
    /\ arg' = v
    /\ ret' = Unit
    /\ UNCHANGED <<self, Ghosts>>

EqPopSelf ==
    /\ self' = pop(self).self
    /\ op' = "pop"
    /\ arg' = Unit
    /\ ret' = pop(self).ret
    /\ UNCHANGED <<other, Ghosts>>

EqPopOther ==
    /\ other' = pop(other).self
    /\ op' = "pop"
    /\ arg' = Unit
    /\ ret' = pop(other).ret
    /\ UNCHANGED <<self, Ghosts>>

EqClearSelf ==
    /\ self' = clear(self)
    /\ op' = "clear"
    /\ arg' = Unit
    /\ ret' = Unit
    /\ UNCHANGED <<other, Ghosts>>

EqClearOther ==
    /\ other' = clear(other)
    /\ op' = "clear"
    /\ arg' = Unit
    /\ ret' = Unit
    /\ UNCHANGED <<self, Ghosts>>

\* self == other
EqCompare ==
    /\ op' = "eq"
    /\ arg' = Unit
    /\ ret' = [kind |-> "bool", val |-> eq(self, other)]
    /\ UNCHANGED <<self, other, Ghosts>>

NextEq ==
    \/ \E v \in Values : EqPushSelf(v)
    \/ \E v \in Values : EqPushOther(v)
    \/ EqPopSelf
    \/ EqPopOther
    \/ EqClearSelf
    \/ EqClearOther
    \/ EqCompare

SpecEq == Init /\ [][NextEq]_vars

---------------------------------------------------------------------------
\* Properties.

\* the elements the pops of s return, in order, until pop returns None
RECURSIVE PopAll(_)
PopAll(s) ==
    IF pop(s).ret.kind = "some"
    THEN <<pop(s).ret.val>> \o PopAll(pop(s).self)
    ELSE <<>>

\* the stack reached from s by calling push on vs[1], vs[2], ... in turn
RECURSIVE PushEach(_, _)
PushEach(s, vs) ==
    IF vs = <<>> THEN s ELSE push(PushEach(s, Front(vs)), Last(vs))

\* C1 (LIFO): when a new stack receives pushes v1..vn and then pops, the
\* i-th pop returns Some(v(n+1-i)) for i <= n, and the pop after the n-th
\* returns None.
LifoOrder ==
    phase = "popping" =>
        \A i \in 1..Len(poppedLog) :
            IF i <= Len(pushedLog)
            THEN /\ poppedLog[i].kind = "some"
                 /\ poppedLog[i].val.val = pushedLog[Len(pushedLog) + 1 - i]
            ELSE poppedLog[i].kind = "none"

\* three pushes with distinct first and last values, all popped, and one
\* more pop made
LifoOrderWitness ==
    /\ phase = "popping"
    /\ Len(pushedLog) = 3
    /\ pushedLog[1] # pushedLog[3]
    /\ Len(poppedLog) = 4

\* C2 (len invariant): while only pushes and successful pops (and reads)
\* have been made on a new stack, len() is the number of pushes minus the
\* number of pops; a push raises len() by 1, a successful pop lowers it by 1.
LenIsPushesMinusPops ==
    /\ [](plain => /\ len(self) = self.pushes - pops
                   /\ (op = "len" => ret.val = self.pushes - pops))
    /\ [][op' = "push" => len(self') = len(self) + 1]_vars
    /\ [][(op' = "pop" /\ ret'.kind = "some") => len(self') = len(self) - 1]_vars

\* len() called after three pushes and one pop
LenIsPushesMinusPopsWitness ==
    /\ plain
    /\ op = "len"
    /\ self.pushes = 3
    /\ pops = 1
    /\ ret.val = 2

\* C3 (empty semantics): pop, top and top_mut on a stack whose len() is 0
\* return None and leave the stack as it was.
EmptyIsAbsent ==
    [][(len(self) = 0 /\ op' \in {"pop", "top", "top_mut"}) =>
          (/\ ret'.kind = "none"
           /\ self' = self
           /\ len(self') = 0
           /\ self'.vec = <<>>)]_vars

\* pop returned None on a stack that had held elements
EmptyIsAbsentWitness ==
    /\ op = "pop"
    /\ ret.kind = "none"
    /\ self.pushes > 0
    /\ len(self) = 0

\* C4 (clear): after clear() len() is 0 and the next pop returns None;
\* clear on an empty stack changes nothing; a second clear changes nothing.
ClearEmpties ==
    [][op' = "clear" =>
          (/\ len(self') = 0
           /\ pop(self').ret.kind = "none"
           /\ clear(self') = self'
           /\ (len(self) = 0 => self' = self))]_vars

\* clear has removed elements that were pushed and not popped
ClearEmptiesWitness ==
    /\ op = "clear"
    /\ self.pushes - pops >= 2
    /\ len(self) = 0

\* C5 (top non-removal): a call of top() leaves the stack as it was: same
\* len(), same elements, same results of the pops that follow.
TopRemovesNothing ==
    [][op' = "top" =>
          (/\ self' = self
           /\ len(self') = len(self)
           /\ self'.vec = self.vec
           /\ PopAll(self') = PopAll(self))]_vars

\* top returned an element of a stack that holds two or more
TopRemovesNothingWitness ==
    /\ op = "top"
    /\ ret.kind = "some"
    /\ len(self) >= 2

\* the element of s pushed last among those present
MostRecent(s) ==
    CHOOSE e \in {s.vec[i] : i \in 1..len(s)} :
        \A i \in 1..len(s) : s.vec[i].id <= e.id

\* the elements of s without the one tagged id, in their order
Without(s, id) == SelectSeq(s.vec, LAMBDA e : e.id # id)

ExtendIsPushEach ==
    [][op' \in {"extend", "extend_ref"} =>
          (/\ self' = PushEach(self, arg')
           /\ ValsOf(self'.vec) = ValsOf(self.vec) \o arg'
           /\ SubSeq(self'.vec, 1, len(self)) = self.vec
           /\ ValsOf(PopAll(self')) = Reverse(arg') \o ValsOf(PopAll(self)))]_vars

\* extend([a, b, c]) with a # c was called on a stack holding one element
ExtendIsPushEachWitness ==
    /\ op = "extend"
    /\ Len(arg) = 3
    /\ arg[1] # arg[3]
    /\ len(self) = 4

\* C8 (view consistency): the read-only view (deref, the same as as_vec)
\* lists the present elements in the order they were pushed; its length is
\* len() and its last element is top().
ViewIsPushOrder ==
    /\ deref(self) = as_vec(self)
    /\ Len(deref(self)) = len(self)
    /\ \A i, j \in 1..Len(deref(self)) :
           i < j => deref(self)[i].id < deref(self)[j].id
    /\ {deref(self)[i].id : i \in 1..Len(deref(self))} = present
    /\ IF Len(deref(self)) = 0
       THEN top(self).ret.kind = "none"
       ELSE /\ top(self).ret.kind = "some"
            /\ top(self).ret.val = deref(self)[Len(deref(self))]
    /\ (phase = "pushing" => ValsOf(deref(self)) = pushedLog)
    /\ (op = "deref" => ret.val = deref(self))
    /\ (op = "as_vec" => ret.val = deref(self))

\* the view taken after push(1), push(2), push(1)
ViewIsPushOrderWitness ==
    /\ op = "deref"
    /\ phase = "pushing"
    /\ ValsOf(ret.val) = <<1, 2, 1>>

\* C9 (top_mut frame): writing through top_mut() on a non-empty stack
\* changes the value at the top position and nothing else.
TopMutWritesTopOnly ==
    [][(op' = "top_mut" /\ len(self) > 0) =>
          (/\ ret'.kind = "some"
           /\ len(self') = len(self)
           /\ Front(self'.vec) = Front(self.vec)
           /\ Last(self'.vec) = [val |-> arg', id |-> Last(self.vec).id]
           /\ ValsOf(PopAll(self')) = <<arg'>> \o Tail(ValsOf(PopAll(self))))]_vars

\* a value written at the top of a stack whose next element holds another
TopMutWritesTopOnlyWitness ==
    /\ op = "top_mut"
    /\ ret.kind = "some"
    /\ len(self) >= 2
    /\ Last(self.vec).val = arg
    /\ self.vec[len(self) - 1].val # arg

\* C10 (equality): two stacks compare equal exactly when their sequences of
\* values are equal, whatever their capacities and histories.
EqIsSameSequence ==
    /\ eq(self, other) <=> (ValsOf(self.vec) = ValsOf(other.vec))
    /\ (op = "eq" => ret.val = (ValsOf(self.vec) = ValsOf(other.vec)))

\* two stacks of different capacity and history compared equal
EqIsSameSequenceWitness ==
    /\ op = "eq"
    /\ ret.val
    /\ len(self) = 1
    /\ self.cap # other.cap
    /\ self.pushes # other.pushes

====
